---- MODULE Spec2Model ----
(***************************************************************************)
(* prettymaps: the layer fetch-and-compose pipeline.                       *)
(*                                                                         *)
(*   src/prettymaps/draw.py   parse_query, transform, plot                 *)
(*   src/prettymaps/fetch.py  get_boundary, get_geometries, get_streets,   *)
(*                            get_layer                                    *)
(*                                                                         *)
(* Three specifications share the module:                                  *)
(*   SpecParse  parse_query applied to bounded queries                     *)
(*   SpecFetch  get_layer (and what it calls) applied to bounded anchors,  *)
(*              options and map data                                       *)
(*   Spec       plot(): anchor, layer fetches, transform, postprocessing,  *)
(*              the bounds adjustment and the return                       *)
(*                                                                         *)
(* Geometry is the set of lattice points a shape covers, in the projected  *)
(* (metric) coordinate system; buffer, intersection and union are the      *)
(* lattice versions of the geometry library's operations.                  *)
(***************************************************************************)
EXTENDS Integers, Sequences, FiniteSets, TLC

VARIABLES
    query,        \* plot / parse_query: the query argument
    query_mode,   \* the tag parse_query returned (None before the call)
    args,         \* plot: the other arguments of the call
    pc,           \* plot: position in the body of plot()
    base_kwargs,  \* plot: the anchor keywords shared by all layer fetches
    layers,       \* plot: the local variable `layers` once it is a LayerMap
    fetched,      \* plot: the LayerMap as the fetch loop left it
    calls,        \* plot: every get_layer call made, with the keywords it got
    log,          \* plot: the stages executed so far, in order
    v,            \* transform: the composite GeometryCollection
    err,          \* plot: the exception that ended the run (None if none)
    f_layer,      \* get_layer: the layer name
    f_kwargs,     \* get_layer: the keyword arguments
    f_world,      \* the map data the retrieval service holds
    f_pc,         \* get_layer: "call" or "done"
    f_out         \* get_layer: what the call produced

parse_vars == <<query, query_mode>>
plot_vars  == <<args, pc, base_kwargs, layers, fetched, calls, log, v, err>>
fetch_vars == <<f_layer, f_kwargs, f_world, f_pc, f_out>>
vars       == <<query, query_mode, args, pc, base_kwargs, layers, fetched,
                calls, log, v, err, f_layer, f_kwargs, f_world, f_pc, f_out>>

\* Python's None, and a present optional value.
None == <<>>
Some(x) == <<x>>

\* The empty keyword record.
NoKw == [k \in {} |-> 0]

\* kwargs.get(k, default): a keyword argument or the parameter's default.
Arg(kw, k, default) ==
    IF k \in DOMAIN kw THEN kw[k] ELSE default

(***************************************************************************)
(* Bounds of the model.                                                    *)
(***************************************************************************)
MaxStrLen == 3
MaxRadius == 2
MaxDilate == 1
MaxWidth == 1
MaxScale == 2

\* get_streets' default width (fetch.py, the signature of get_streets).
DefaultWidth == 6

(***************************************************************************)
(* Query classifier: draw.py parse_query                                   *)
(***************************************************************************)
Upper == {"A"}
Digit == {"1"}
Alphabet == Upper \cup Digit \cup {" ", "m"}

\* Strings are sequences of characters.
Strings == UNION {[1..n -> Alphabet] : n \in 0..MaxStrLen}

\* re.match('[A-Z][0-9]+', s): the pattern is matched at the START of s and
\* need not reach its end.
re_match(s) ==
    /\ Len(s) >= 2
    /\ s[1] \in Upper
    /\ s[2] \in Digit

\* The whole string is one uppercase letter followed by digits.
FullMatch(s) ==
    /\ Len(s) >= 2
    /\ s[1] \in Upper
    /\ \A i \in 2..Len(s) : s[i] \in Digit

parse_query(q) ==
    IF q.type \in {"Polygon", "MultiPolygon"} THEN "polygon"
    ELSE IF q.type = "tuple" THEN "coordinates"
    ELSE IF re_match(q.val) THEN "osmid"
    ELSE "address"

(***************************************************************************)
(* Lattice geometry (the geometry algebra collaborator)                    *)
(***************************************************************************)
Sq(n) == n * n

\* The offsets within Euclidean distance d of the origin.
Disk(d) ==
    {o \in (-d..d) \X (-d..d) : Sq(o[1]) + Sq(o[2]) <= Sq(d)}

\* geom.buffer(d): every point within distance d of the shape.
Buffer(g, d) ==
    UNION {{<<q[1] + o[1], q[2] + o[2]>> : o \in Disk(d)} : q \in g}

\* Point(c).buffer(r)
Ball(c, r) == Buffer({c}, r)

\* Polygon([(x-r, y-r), (x+r, y-r), (x+r, y+r), (x-r, y+r)])
Square(c, r) ==
    {<<c[1] + o[1], c[2] + o[2]>> : o \in (-r..r) \X (-r..r)}

\* unary_union of a collection of shapes.
unary_union(gs) == UNION gs

\* Point(point[::-1]) projected: (lat, lon) becomes x = lon, y = lat.
ProjectPoint(point) == <<point[2], point[1]>>

(***************************************************************************)
(* Boundary resolver: fetch.py get_boundary                                *)
(***************************************************************************)
get_boundary(point, radius, circle, dilate) ==
    IF circle THEN Ball(ProjectPoint(point), radius)
    ELSE Buffer(Square(ProjectPoint(point), radius), dilate)

(***************************************************************************)
(* The feature-retrieval collaborator (osmnx).  It holds the map data      *)
(* f_world = [areas, edges] and answers a request with every feature that  *)
(* touches the requested region, whole: clipping is the core's work.       *)
(*   area feature  [type, parts]   parts: a set of shapes                  *)
(*   graph edge    [cat, pts]      cat: category column -> label           *)
(***************************************************************************)
Cover(parts) == UNION parts

\* ox.geometries_from_polygon(polygon, tags)
geometries_from_polygon(world, region) ==
    {f \in world.areas : Cover(f.parts) \cap region # {}}

\* ox.geometries_from_point(point, dist, tags): the bounding box around point
geometries_from_point(world, point, dist) ==
    {f \in world.areas : Cover(f.parts) \cap Square(ProjectPoint(point), dist) # {}}

\* ox.graph_from_polygon(polygon, custom_filter), projected, edges only
graph_from_polygon(world, region) ==
    {e \in world.edges : e.pts \cap region # {}}

\* ox.graph_from_point(point, dist, custom_filter), projected, edges only
graph_from_point(world, point, dist) ==
    {e \in world.edges : e.pts \cap Square(ProjectPoint(point), dist) # {}}

(***************************************************************************)
(* What a call of get_layer produces:                                      *)
(*   raised      the exception that left the call ("" when it returned)    *)
(*   geom        the returned geometry, as the set of its parts            *)
(*   retrievals  the retrieval-service operations the call performed       *)
(*   boundary    the value get_boundary returned, when it was called       *)
(***************************************************************************)
Returned(parts, retrievals, boundary) ==
    [raised |-> "", geom |-> parts, retrievals |-> retrievals, boundary |-> boundary]

Raised(error) ==
    [raised |-> error, geom |-> {}, retrievals |-> {}, boundary |-> None]

Pending ==
    [raised |-> "pending", geom |-> {}, retrievals |-> {}, boundary |-> None]

\* An anchor perimeter is a GeoDataFrame (rows of shapes); plot() hands over a
\* bare shapely Polygon when the query itself is a polygon, and a Polygon has
\* neither .geometry nor .crs.
IsGdf(perimeter) == perimeter.type = "GeoDataFrame"

(***************************************************************************)
(* Layer fetcher, area layers: fetch.py get_geometries                     *)
(* The map data holds the features that match the layer's tags;            *)
(* perimeter_tolerance keeps its default 0, with which line 52 requests    *)
(* the union of the perimeter's rows.                                      *)
(***************************************************************************)
\* geometries.intersection(perimeter), one feature
Intersect(f, clip) ==
    LET parts == {p \cap clip : p \in f.parts} \ {{}}
    IN  [type |-> IF parts = {} THEN "GeometryCollection" ELSE f.type,
         parts |-> parts]

\* The list both branches of `if union` build: the parts of every Polygon or
\* MultiPolygon among the clipped features.
PolygonParts(features) ==
    UNION {f.parts : f \in {g \in features : g.type \in {"Polygon", "MultiPolygon"}}}

Combine(parts, union) ==
    IF union /\ parts # {} THEN {unary_union(parts)} ELSE parts

get_geometries_unclipped(kw, world) ==
    LET circle == Arg(kw, "circle", TRUE)
        dilate == Arg(kw, "dilate", 0)
        union  == Arg(kw, "union", TRUE)
    IN  IF "perimeter" \in DOMAIN kw
        THEN IF ~IsGdf(kw.perimeter) THEN Raised("AttributeError")
             ELSE LET geometries == geometries_from_polygon(world, unary_union(kw.perimeter.rows))
                  IN  Returned(Combine(PolygonParts(geometries), union),
                               {"geometries_from_polygon"}, None)
        ELSE IF "point" \in DOMAIN kw /\ "radius" \in DOMAIN kw
        THEN LET geometries == geometries_from_point(world, kw.point, kw.radius + dilate)
                 perimeter  == get_boundary(kw.point, kw.radius, circle, dilate)
             IN  Returned(Combine(PolygonParts(geometries), union),
                          {"geometries_from_point"}, Some(perimeter))
        ELSE Raised("UnboundLocalError")

get_geometries(kw, world) ==
    LET circle == Arg(kw, "circle", TRUE)
        dilate == Arg(kw, "dilate", 0)
        union  == Arg(kw, "union", TRUE)
    IN  IF "perimeter" \in DOMAIN kw
        THEN IF ~IsGdf(kw.perimeter) THEN Raised("AttributeError")
             ELSE LET geometries == geometries_from_polygon(world, unary_union(kw.perimeter.rows))
                      perimeter  == unary_union(kw.perimeter.rows)
                      clipped    == {Intersect(f, perimeter) : f \in geometries}
                  IN  Returned(Combine(PolygonParts(clipped), union),
                               {"geometries_from_polygon"}, None)
        ELSE IF "point" \in DOMAIN kw /\ "radius" \in DOMAIN kw
        THEN LET geometries == geometries_from_point(world, kw.point, kw.radius + dilate)
                 perimeter  == get_boundary(kw.point, kw.radius, circle, dilate)
                 clipped    == {Intersect(f, perimeter) : f \in geometries}
             IN  Returned(Combine(PolygonParts(clipped), union),
                          {"geometries_from_point"}, Some(perimeter))
        ELSE Raised("UnboundLocalError")

(***************************************************************************)
(* Layer fetcher, network layers: fetch.py get_streets                     *)
(***************************************************************************)
\* width: [kind |-> "scalar", n |-> w] or [kind |-> "dict", by |-> label -> w]
ScalarWidth(n) == [kind |-> "scalar", n |-> n, by |-> NoKw]
DictWidth(by)  == [kind |-> "dict", n |-> 0, by |-> by]

\* The ribbon: edges buffered by width, per category when width is a mapping.
Ribbon(streets, key, width) ==
    IF width.kind = "dict"
    THEN unary_union({Buffer(unary_union({e.pts : e \in {s \in streets : s.cat[key] = highway}}),
                             width.by[highway]) : highway \in DOMAIN width.by})
    ELSE Buffer(unary_union({e.pts : e \in streets}), width.n)

AsParts(shape) == IF shape = {} THEN {} ELSE {shape}

get_streets(kw, layer_name, world) ==
    LET layer  == IF layer_name = "streets" THEN "highway" ELSE layer_name
        width  == Arg(kw, "width", ScalarWidth(DefaultWidth))
        circle == Arg(kw, "circle", TRUE)
        dilate == Arg(kw, "dilate", 0)
    IN  IF "perimeter" \in DOMAIN kw
        THEN IF ~IsGdf(kw.perimeter) THEN Raised("AttributeError")
             ELSE LET streets == graph_from_polygon(world, unary_union(kw.perimeter.rows))
                  IN  Returned(AsParts(Ribbon(streets, layer, width)),
                               {"graph_from_polygon"}, None)
        ELSE IF "point" \in DOMAIN kw /\ "radius" \in DOMAIN kw
        THEN LET graph     == graph_from_point(world, kw.point, kw.radius + dilate)
                 perimeter == get_boundary(kw.point, kw.radius, circle, dilate)
                 clipped   == {[cat |-> e.cat, pts |-> e.pts \cap perimeter] : e \in graph}
                 streets   == {e \in clipped : e.pts # {}}
             IN  Returned(AsParts(Ribbon(streets, layer, width)),
                          {"graph_from_point"}, Some(perimeter))
        ELSE Raised("UnboundLocalError")

(***************************************************************************)
(* Layer dispatch: fetch.py get_layer                                      *)
(***************************************************************************)
NetworkLayers == {"streets", "railway", "waterway"}

get_layer_perimeter(kw) ==
    IF "perimeter" \in DOMAIN kw
    THEN IF ~IsGdf(kw.perimeter) THEN Raised("AttributeError")
         ELSE Returned(AsParts(unary_union(kw.perimeter.rows)), {}, None)
    ELSE IF "point" \in DOMAIN kw /\ "radius" \in DOMAIN kw
    THEN LET perimeter == get_boundary(kw.point, kw.radius,
                                       Arg(kw, "circle", TRUE), Arg(kw, "dilate", 0))
         IN  Returned(AsParts(perimeter), {"graph_from_point"}, Some(perimeter))
    ELSE Raised("Either 'perimeter' or 'point' & 'radius' must be provided")

\* The vocabulary a name check would accept: the dispatch names and the
\* feature-tag categories of the map data.
KnownLayers == {"perimeter"} \cup NetworkLayers \cup {"building"}

get_layer_validating(layer, kw, world) ==
    IF layer \notin KnownLayers THEN Raised("unsupported layer")
    ELSE IF layer = "perimeter" THEN get_layer_perimeter(kw)
    ELSE IF layer \in NetworkLayers THEN get_streets(kw, layer, world)
    ELSE get_geometries(kw, world)

get_layer(layer, kw, world) ==
    IF layer = "perimeter" THEN get_layer_perimeter(kw)
    ELSE IF layer \in NetworkLayers THEN get_streets(kw, layer, world)
    ELSE get_geometries(kw, world)

(***************************************************************************)
(* SpecFetch: one call of get_layer on bounded inputs                      *)
(***************************************************************************)
\* A strip along the x axis that leaves every boundary the bounds allow.
Strip == {<<i, 0>> : i \in 0..(MaxRadius + MaxDilate + MaxWidth + 2)}

AreaPool ==
    {[type |-> "Polygon", parts |-> {Strip}],
     [type |-> "MultiPolygon", parts |-> {{<<0, 1>>}, {<<-1, -1>>, <<-2, -2>>, <<-3, -3>>, <<-4, -4>>}}],
     [type |-> "LineString", parts |-> {{<<0, 0>>, <<0, 1>>}}]}

EdgeCat(label) == [highway |-> label, railway |-> label, waterway |-> label]

EdgePool ==
    {[cat |-> EdgeCat("primary"), pts |-> Strip],
     [cat |-> EdgeCat("residential"), pts |-> {<<0, 0>>, <<0, 1>>, <<0, 2>>}]}

Worlds ==
    {[areas |-> a, edges |-> {}] : a \in SUBSET AreaPool}
        \cup {[areas |-> {}, edges |-> e] : e \in SUBSET EdgePool}

Gdf(rows) == [type |-> "GeoDataFrame", rows |-> rows]

Perimeters ==
    {Gdf({Square(<<0, 0>>, 1)}),
     Gdf({Square(<<0, 0>>, 1), {<<2, 0>>, <<2, 1>>}}),
     [type |-> "Polygon", rows |-> {Square(<<0, 0>>, 1)}]}

Points == {<<0, 0>>, <<0, 1>>}

Anchors ==
    {NoKw, [point |-> <<0, 0>>]}
        \cup {[perimeter |-> g] : g \in Perimeters}
        \cup {[point |-> p, radius |-> r] : p \in Points, r \in 1..MaxRadius}

CommonOpts ==
    {NoKw} \cup {[circle |-> c, dilate |-> d] : c \in BOOLEAN, d \in 0..MaxDilate}

AreaOpts ==
    {o @@ u : o \in CommonOpts, u \in {NoKw, [union |-> FALSE]}}

Widths ==
    {ScalarWidth(n) : n \in 0..MaxWidth}
        \cup {DictWidth([primary |-> MaxWidth, residential |-> 0])}

StreetOpts ==
    {o @@ w : o \in CommonOpts, w \in {NoKw} \cup {[width |-> x] : x \in Widths}}

AreaLayers == {"building", "xyzzy"}

FetchInputs ==
    {<<"perimeter", a @@ o>> : a \in Anchors, o \in CommonOpts}
        \cup {<<l, a @@ o>> : l \in NetworkLayers, a \in Anchors, o \in StreetOpts}
        \cup {<<l, a @@ o>> : l \in AreaLayers, a \in Anchors, o \in AreaOpts}

PlotIdle ==
    /\ args = NoKw
    /\ pc = "idle"
    /\ base_kwargs = NoKw
    /\ layers = <<>>
    /\ fetched = None
    /\ calls = <<>>
    /\ log = <<>>
    /\ v = <<>>
    /\ err = None

ParseIdle ==
    /\ query = [type |-> "str", val |-> <<>>]
    /\ query_mode = None

FetchIdle ==
    /\ f_layer = ""
    /\ f_kwargs = NoKw
    /\ f_world = [areas |-> {}, edges |-> {}]
    /\ f_pc = "idle"
    /\ f_out = Pending

InitFetch ==
    /\ ParseIdle
    /\ PlotIdle
    /\ \E in \in FetchInputs :
        /\ f_layer = in[1]
        /\ f_kwargs = in[2]
    /\ f_world \in Worlds
    /\ f_pc = "call"
    /\ f_out = Pending

\* get_layer, the branch for the perimeter layer
GetLayerPerimeter ==
    /\ f_pc = "call"
    /\ f_layer = "perimeter"
    /\ f_out' = get_layer(f_layer, f_kwargs, f_world)
    /\ f_pc' = "done"
    /\ UNCHANGED <<f_layer, f_kwargs, f_world, parse_vars, plot_vars>>

\* get_layer, the branch for streets, railway and waterway
GetLayerStreets ==
    /\ f_pc = "call"
    /\ f_layer \in NetworkLayers
    /\ f_out' = get_layer(f_layer, f_kwargs, f_world)
    /\ f_pc' = "done"
    /\ UNCHANGED <<f_layer, f_kwargs, f_world, parse_vars, plot_vars>>

\* get_layer, the branch for every other name
GetLayerGeometries ==
    /\ f_pc = "call"
    /\ f_layer \notin {"perimeter"} \cup NetworkLayers
    /\ f_out' = get_layer(f_layer, f_kwargs, f_world)
    /\ f_pc' = "done"
    /\ UNCHANGED <<f_layer, f_kwargs, f_world, parse_vars, plot_vars>>

NextFetch ==
    \/ GetLayerPerimeter
    \/ GetLayerStreets
    \/ GetLayerGeometries

SpecFetch == InitFetch /\ [][NextFetch]_vars

(***************************************************************************)
(* SpecParse: parse_query on bounded queries                               *)
(***************************************************************************)
ParseInputs ==
    {[type |-> "str", val |-> s] : s \in Strings}
        \cup {[type |-> "tuple", val |-> p] : p \in Points}
        \cup {[type |-> t, val |-> <<>>] : t \in {"Polygon", "MultiPolygon"}}

InitParse ==
    /\ query \in ParseInputs
    /\ query_mode = None
    /\ PlotIdle
    /\ FetchIdle

ParseQuery ==
    /\ query_mode = None
    /\ pc = "idle"
    /\ query_mode' = Some(parse_query(query))
    /\ UNCHANGED <<query, plot_vars, fetch_vars>>

NextParse == ParseQuery

SpecParse == InitParse /\ [][NextParse]_vars

(***************************************************************************)
(* Transform: draw.py transform.  A LayerMap is a sequence of <<name,       *)
(* geometry>> pairs in insertion order; a geometry is the sequence of its  *)
(* parts (none: empty, several: multi-part), a part the set of its         *)
(* vertices.  Coordinates are integers in 1/Unit of a metre, Unit being    *)
(* divisible by 2 and by every vertex count that occurs, so that centroids *)
(* and bounding-box centres are exact.                                     *)
(***************************************************************************)
Unit == 2 * 3 * 4 * 5

RECURSIVE SumSeq(_)
SumSeq(s) == IF s = <<>> THEN 0 ELSE Head(s) + SumSeq(Tail(s))

RECURSIVE SumCoord(_, _)
SumCoord(S, k) ==
    IF S = {} THEN 0
    ELSE LET p == CHOOSE q \in S : TRUE
         IN  p[k] + SumCoord(S \ {p}, k)

GeomSum(g, k) == SumSeq([j \in DOMAIN g |-> SumCoord(g[j], k)])
GeomCount(g) == SumSeq([j \in DOMAIN g |-> Cardinality(g[j])])

\* The vertices of a collection, its vertex count and coordinate sums.
Vertices(c) == UNION {UNION {c[i][j] : j \in DOMAIN c[i]} : i \in DOMAIN c}
Count(c) == SumSeq([i \in DOMAIN c |-> GeomCount(c[i])])
Sum(c, k) == SumSeq([i \in DOMAIN c |-> GeomSum(c[i], k)])

is_empty(c) == Count(c) = 0

\* geom.centroid, for a non-empty collection
Centroid(c) == <<Sum(c, 1) \div Count(c), Sum(c, 2) \div Count(c)>>

Min(S) == CHOOSE m \in S : \A n \in S : m <= n
Max(S) == CHOOSE m \in S : \A n \in S : m >= n

\* origin = 'center': the centre of the bounding box
Center(c) ==
    LET xs == {p[1] : p \in Vertices(c)}
        ys == {p[2] : p \in Vertices(c)}
    IN  <<(Min(xs) + Max(xs)) \div 2, (Min(ys) + Max(ys)) \div 2>>

MapVertices(c, F(_)) ==
    [i \in DOMAIN c |-> [j \in DOMAIN c[i] |-> {F(p) : p \in c[i][j]}]]

\* shapely.affinity.translate(geom, xoff, yoff)
translate(c, xoff, yoff) ==
    IF is_empty(c) THEN c
    ELSE LET F(p) == <<p[1] + xoff, p[2] + yoff>> IN MapVertices(c, F)

\* shapely.affinity.scale(geom, xfact, yfact), about the centre
scale(c, xfact, yfact) ==
    IF is_empty(c) THEN c
    ELSE LET o == Center(c)
             F(p) == <<o[1] + xfact * (p[1] - o[1]), o[2] + yfact * (p[2] - o[2])>>
         IN  MapVertices(c, F)

\* cos and sin of a multiple of 90 degrees
Cos(a) == CASE a % 360 = 0 -> 1 [] a % 360 = 180 -> -1 [] OTHER -> 0
Sin(a) == CASE a % 360 = 90 -> 1 [] a % 360 = 270 -> -1 [] OTHER -> 0

\* shapely.affinity.rotate(geom, angle), counter-clockwise about the centre
rotate(c, angle) ==
    IF is_empty(c) THEN c
    ELSE LET o == Center(c)
             F(p) == <<o[1] + Cos(angle) * (p[1] - o[1]) - Sin(angle) * (p[2] - o[2]),
                       o[2] + Sin(angle) * (p[1] - o[1]) + Cos(angle) * (p[2] - o[2])>>
         IN  MapVertices(c, F)

Keys(lm) == [i \in DOMAIN lm |-> lm[i][1]]
Values(lm) == [i \in DOMAIN lm |-> lm[i][2]]
HasKey(lm, k) == \E i \in DOMAIN lm : lm[i][1] = k

\* GeometryCollection(v): the members are kept one per value, empty and
\* multi-part ones included.
GeometryCollection_dropping_empties(vals) ==
    SelectSeq(vals, LAMBDA g : g # <<>>)

GeometryCollection(vals) == vals

\* dict(zip(k, v)): zip stops at the shorter of the two
Zip(k, c) ==
    [i \in 1..(IF Len(k) <= Len(c) THEN Len(k) ELSE Len(c)) |-> <<k[i], c[i]>>]

\* The four optional steps, lines 123-130, each a no-op without its parameter.
translates_both_axes(x, y) == x # None /\ y # None

translate_step_per_axis(c, x, y) ==
    IF is_empty(c) THEN c
    ELSE translate(c,
                   IF x # None THEN x[1] - Centroid(c)[1] ELSE 0,
                   IF y # None THEN y[1] - Centroid(c)[2] ELSE 0)

translate_step(c, x, y) ==
    IF translates_both_axes(x, y)
    THEN translate(c, x[1] - Centroid(c)[1], y[1] - Centroid(c)[2])
    ELSE c

scale_x_step(c, scale_x) ==
    IF scale_x # None THEN scale(c, scale_x[1], 1) ELSE c

scale_y_step(c, scale_y) ==
    IF scale_y # None THEN scale(c, 1, scale_y[1]) ELSE c

rotate_step(c, rotation) ==
    IF rotation # None THEN rotate(c, rotation[1]) ELSE c

\* The order of the steps in the body of transform.
transform_order_rotate_first == <<"translate", "rotate", "scale_x", "scale_y">>

transform_order == <<"translate", "scale_x", "scale_y", "rotate">>

StepAfter(step) ==
    LET i == CHOOSE n \in DOMAIN transform_order : transform_order[n] = step
    IN  IF i < Len(transform_order) THEN transform_order[i + 1] ELSE "zip"

(***************************************************************************)
(* Layer pipeline: draw.py plot                                            *)
(***************************************************************************)
\* What the geometry of a fetched layer may be (get_layer, seen from plot).
ShapePerimeter == <<{<<0, 0>>, <<2 * Unit, Unit>>}>>
ShapeStreets == <<{<<Unit, 0>>}>>
ShapeBuildings == <<{<<0, Unit>>}, {<<Unit, Unit>>}>>
EmptyShape == <<>>

Shapes(layer) ==
    CASE layer = "perimeter" -> {ShapePerimeter}
      [] layer = "streets" -> {ShapeStreets, EmptyShape}
      [] OTHER -> {ShapeBuildings, EmptyShape}

\* ox.geocode accepts a string only; ox.geocode_to_gdf a string (or dict, list).
geocodable(q) == q.type = "str"

\* ox.geocode(query): a (lat, lon) pair
geocode(q) == <<0, 0>>

\* get_perimeter(query, by_osmid): a GeoDataFrame
get_perimeter(q, by_osmid) == Gdf({Square(<<0, 0>>, 1)})

\* if radius: (None and 0 are both falsy)
truthy(radius) == radius # None /\ radius[1] # 0

\* base_kwargs, lines 178-186
anchor_kwargs_always_perimeter(q, mode, radius) ==
    IF truthy(radius)
    THEN [perimeter |-> IF mode = "polygon" THEN q ELSE get_perimeter(q, mode = "osmid"),
          point |-> IF mode = "coordinates" THEN q.val ELSE geocode(q),
          radius |-> radius[1]]
    ELSE [perimeter |-> IF mode = "polygon" THEN q ELSE get_perimeter(q, mode = "osmid")]

anchor_kwargs(q, mode, radius) ==
    IF truthy(radius)
    THEN [point |-> IF mode = "coordinates" THEN q.val ELSE geocode(q),
          radius |-> radius[1]]
    ELSE [perimeter |-> IF mode = "polygon" THEN q ELSE get_perimeter(q, mode = "osmid")]

\* Whether building base_kwargs calls the geocoder, and whether that call fails.
anchor_lookup(mode, radius) ==
    IF truthy(radius)
    THEN IF mode = "coordinates" THEN <<>> ELSE <<<<"geocode", "">>>>
    ELSE IF mode = "polygon" THEN <<>> ELSE <<<<"get_perimeter", "">>>>

anchor_raises(q, mode, radius) ==
    anchor_lookup(mode, radius) # <<>> /\ ~geocodable(q)

\* Caller-supplied postprocessing functions.
postprocess(f, lm) ==
    CASE f = "keep_perimeter" -> SelectSeq(lm, LAMBDA e : e[1] = "perimeter")
      [] f = "mirror" ->
            LET F(p) == <<-p[1], p[2]>>
            IN  Zip(Keys(lm), MapVertices(Values(lm), F))
      [] OTHER -> lm

Step(name) == <<name, "">>

PlotQueries ==
    {[type |-> "Polygon", val |-> <<>>],
     [type |-> "tuple", val |-> <<0, 1>>],
     [type |-> "str", val |-> <<"A", "1">>],
     [type |-> "str", val |-> <<"m", " ", "m">>]}

Backups ==
    {<<<<"perimeter", ShapePerimeter>>, <<"streets", ShapeStreets>>>>,
     <<<<"streets", ShapeStreets>>>>}

LayerSets ==
    {<<<<"perimeter", NoKw>>>>,
     <<<<"perimeter", NoKw>>, <<"streets", [width |-> ScalarWidth(1), dilate |-> 1]>>>>,
     <<<<"streets", NoKw>>, <<"building", [union |-> FALSE]>>>>,
     <<<<"building", NoKw>>, <<"perimeter", [dilate |-> 1]>>, <<"streets", NoKw>>>>,
     <<>>}

Optional(S) == {None} \cup {Some(x) : x \in S}

PlotArgs ==
    [backup : Optional(Backups),
     postprocessing : Optional({"keep_perimeter", "mirror"}),
     radius : Optional(0..MaxRadius),
     layers : LayerSets,
     x : Optional({3 * Unit}),
     y : Optional({-Unit}),
     scale_x : Optional(2..MaxScale),
     scale_y : Optional(2..MaxScale),
     rotation : Optional({90})]

Init ==
    /\ query \in PlotQueries
    /\ query_mode = None
    /\ args \in PlotArgs
    /\ pc = "start"
    /\ base_kwargs = NoKw
    /\ layers = <<>>
    /\ fetched = None
    /\ calls = <<>>
    /\ log = <<>>
    /\ v = <<>>
    /\ err = None
    /\ FetchIdle

Raise(error) ==
    /\ pc' = "raised"
    /\ err' = Some(error)

\* line 162: query_mode = parse_query(query)
Classify ==
    /\ pc = "start"
    /\ query_mode' = Some(parse_query(query))
    /\ pc' = IF args.backup # None THEN "backup" ELSE "anchor"
    /\ UNCHANGED <<query, args, base_kwargs, layers, fetched, calls, log, v, err, fetch_vars>>

\* lines 173-174: layers = backup; the transform and the postprocessing of
\* lines 198-203 belong to the else branch and are not reached
UseBackup_then_postprocess ==
    /\ pc = "backup"
    /\ layers' = args.backup[1]
    /\ pc' = "postprocess"
    /\ UNCHANGED <<query, query_mode, args, base_kwargs, fetched, calls, log, v, err, fetch_vars>>

UseBackup ==
    /\ pc = "backup"
    /\ layers' = args.backup[1]
    /\ pc' = "bounds"
    /\ UNCHANGED <<query, query_mode, args, base_kwargs, fetched, calls, log, v, err, fetch_vars>>

\* lines 178-186: base_kwargs
BuildAnchor ==
    /\ pc = "anchor"
    /\ log' = log \o anchor_lookup(query_mode[1], args.radius)
    /\ IF anchor_raises(query, query_mode[1], args.radius)
       THEN /\ Raise("geocoder")
            /\ UNCHANGED base_kwargs
       ELSE /\ base_kwargs' = anchor_kwargs(query, query_mode[1], args.radius)
            /\ pc' = "fetch"
            /\ UNCHANGED err
    /\ UNCHANGED <<query, query_mode, args, layers, fetched, calls, v, fetch_vars>>

\* lines 189-196, one iteration: layers[layer] = get_layer(layer, **base_kwargs, **kwargs)
FetchLayer ==
    /\ pc = "fetch"
    /\ Len(layers) < Len(args.layers)
    /\ LET layer == args.layers[Len(layers) + 1][1]
           kw == base_kwargs @@ args.layers[Len(layers) + 1][2]
       IN  /\ calls' = Append(calls, [layer |-> layer, kw |-> kw])
           /\ log' = Append(log, <<"fetch", layer>>)
           /\ IF "perimeter" \in DOMAIN kw /\ ~IsGdf(kw.perimeter)
              THEN /\ Raise("AttributeError")
                   /\ UNCHANGED layers
              ELSE /\ \E g \in Shapes(layer) : layers' = Append(layers, <<layer, g>>)
                   /\ UNCHANGED <<pc, err>>
    /\ UNCHANGED <<query, query_mode, args, base_kwargs, fetched, v, fetch_vars>>

\* lines 121-122: k, v = zip(*layers.items()); v = GeometryCollection(v)
TransformBegin ==
    /\ pc = "fetch"
    /\ Len(layers) = Len(args.layers)
    /\ fetched' = Some(layers)
    /\ IF layers = <<>>
       THEN /\ Raise("ValueError")
            /\ UNCHANGED v
       ELSE /\ v' = GeometryCollection(Values(layers))
            /\ pc' = transform_order[1]
            /\ UNCHANGED err
    /\ UNCHANGED <<query, query_mode, args, base_kwargs, layers, calls, log, fetch_vars>>

\* lines 123-124; the centroid of an empty collection has no coordinates
Translate ==
    /\ pc = "translate"
    /\ IF translates_both_axes(args.x, args.y) /\ is_empty(v)
       THEN /\ Raise("ValueError")
            /\ UNCHANGED <<v, log>>
       ELSE /\ v' = translate_step(v, args.x, args.y)
            /\ log' = IF translates_both_axes(args.x, args.y)
                      THEN Append(log, Step("translate")) ELSE log
            /\ pc' = StepAfter("translate")
            /\ UNCHANGED err
    /\ UNCHANGED <<query, query_mode, args, base_kwargs, layers, fetched, calls, fetch_vars>>

\* lines 125-126
ScaleX ==
    /\ pc = "scale_x"
    /\ v' = scale_x_step(v, args.scale_x)
    /\ log' = IF args.scale_x # None THEN Append(log, Step("scale_x")) ELSE log
    /\ pc' = StepAfter("scale_x")
    /\ UNCHANGED <<query, query_mode, args, base_kwargs, layers, fetched, calls, err, fetch_vars>>

\* lines 127-128
ScaleY ==
    /\ pc = "scale_y"
    /\ v' = scale_y_step(v, args.scale_y)
    /\ log' = IF args.scale_y # None THEN Append(log, Step("scale_y")) ELSE log
    /\ pc' = StepAfter("scale_y")
    /\ UNCHANGED <<query, query_mode, args, base_kwargs, layers, fetched, calls, err, fetch_vars>>

\* lines 129-130
Rotate ==
    /\ pc = "rotate"
    /\ v' = rotate_step(v, args.rotation)
    /\ log' = IF args.rotation # None THEN Append(log, Step("rotate")) ELSE log
    /\ pc' = StepAfter("rotate")
    /\ UNCHANGED <<query, query_mode, args, base_kwargs, layers, fetched, calls, err, fetch_vars>>

\* lines 131-132: layers = dict(zip(k, v))
TransformEnd ==
    /\ pc = "zip"
    /\ layers' = Zip(Keys(layers), v)
    /\ pc' = "postprocess"
    /\ UNCHANGED <<query, query_mode, args, base_kwargs, fetched, calls, log, v, err, fetch_vars>>

\* lines 202-203
Postprocess ==
    /\ pc = "postprocess"
    /\ IF args.postprocessing # None
       THEN /\ layers' = postprocess(args.postprocessing[1], layers)
            /\ log' = Append(log, <<"postprocessing", args.postprocessing[1]>>)
       ELSE UNCHANGED <<layers, log>>
    /\ pc' = "bounds"
    /\ UNCHANGED <<query, query_mode, args, base_kwargs, fetched, calls, v, err, fetch_vars>>

\* line 232: layers['perimeter'].buffer(max_dilation).bounds, then line 265
AdjustBoundsAndReturn ==
    /\ pc = "bounds"
    /\ IF HasKey(layers, "perimeter")
       THEN /\ pc' = "done"
            /\ UNCHANGED err
       ELSE Raise("KeyError")
    /\ UNCHANGED <<query, query_mode, args, base_kwargs, layers, fetched, calls, log, v, fetch_vars>>

Next ==
    \/ Classify
    \/ UseBackup
    \/ BuildAnchor
    \/ FetchLayer
    \/ TransformBegin
    \/ Translate
    \/ ScaleX
    \/ ScaleY
    \/ Rotate
    \/ TransformEnd
    \/ Postprocess
    \/ AdjustBoundsAndReturn

Spec == Init /\ [][Next]_vars

(***************************************************************************)
(* Properties                                                              *)
(***************************************************************************)
FetchingRun == pc # "idle" /\ args.backup = None

\* Coordinates stay exact: every centroid and bounding-box centre the
\* transform computes is an integer number of 1/Unit.
ExactArithmetic ==
    (pc \in {"translate", "scale_x", "scale_y", "rotate", "zip"} /\ ~is_empty(v)) =>
        /\ Sum(v, 1) % Count(v) = 0
        /\ Sum(v, 2) % Count(v) = 0
        /\ \A k \in 1..2 :
            LET cs == {p[k] : p \in Vertices(v)} IN (Min(cs) + Max(cs)) % 2 = 0

\* C1: every fetching run, whatever layer set the caller declared, fetches
\* the perimeter layer and returns a LayerMap holding a 'perimeter' entry; no
\* run fails for want of one.
C1_PerimeterAlwaysPresent ==
    FetchingRun =>
        /\ err # Some("KeyError")
        /\ pc = "done" =>
            /\ HasKey(layers, "perimeter")
            /\ \E i \in DOMAIN calls : calls[i].layer = "perimeter"

\* The composite a LayerMap gives after the four steps in the stated order.
Composed(lm, a) ==
    LET c0 == Values(lm)
        c1 == IF a.x # None /\ a.y # None
              THEN translate(c0, a.x[1] - Centroid(c0)[1], a.y[1] - Centroid(c0)[2])
              ELSE c0
        c2 == IF a.scale_x # None THEN scale(c1, a.scale_x[1], 1) ELSE c1
        c3 == IF a.scale_y # None THEN scale(c2, 1, a.scale_y[1]) ELSE c2
    IN  IF a.rotation # None THEN rotate(c3, a.rotation[1]) ELSE c3

Postprocessed(lm, a) ==
    IF a.postprocessing # None THEN postprocess(a.postprocessing[1], lm) ELSE lm

C7_TranslationPerAxis ==
    (pc = "scale_x" /\ ~is_empty(v)) =>
        LET c0 == Values(fetched[1])
        IN  /\ args.x # None => Centroid(v)[1] = args.x[1]
            /\ args.y # None => Centroid(v)[2] = args.y[1]
            /\ args.x = None => Centroid(v)[1] = Centroid(c0)[1]
            /\ args.y = None => Centroid(v)[2] = Centroid(c0)[2]

\* C7 (amended): the translation step acts only when both x and y are given,
\* and then puts the composite's centroid on (x, y); when either is omitted
\* the composite is not translated on any axis.
C7_TranslationNeedsBothAxes ==
    (pc = "scale_x" /\ ~is_empty(v)) =>
        IF args.x # None /\ args.y # None
        THEN Centroid(v) = <<args.x[1], args.y[1]>>
        ELSE v = Values(fetched[1])

C7_Witness ==
    /\ pc = "scale_x"
    /\ ~is_empty(v)
    /\ args.x # None
    /\ args.y = None
    /\ Centroid(v)[1] # args.x[1]

IsPrefix(s, t) == Len(s) <= Len(t) /\ s = SubSeq(t, 1, Len(s))

\* The stages of a fetching run in the claimed order.
ExpectedLog ==
    anchor_lookup(parse_query(query), args.radius)
        \o [i \in DOMAIN args.layers |-> <<"fetch", args.layers[i][1]>>]
        \o (IF args.x # None /\ args.y # None THEN <<Step("translate")>> ELSE <<>>)
        \o (IF args.scale_x # None THEN <<Step("scale_x")>> ELSE <<>>)
        \o (IF args.scale_y # None THEN <<Step("scale_y")>> ELSE <<>>)
        \o (IF args.rotation # None THEN <<Step("rotate")>> ELSE <<>>)
        \o (IF args.postprocessing # None
            THEN <<<<"postprocessing", args.postprocessing[1]>>>> ELSE <<>>)

\* C8: a fetching run executes its stages in one order: every declared layer
\* is fetched, then the composite is translated, X-scaled, Y-scaled and
\* rotated (each step only when its parameters are given), and then the
\* postprocessing function is called on the transformed LayerMap, its return
\* value being the result.
C8_StagesInOrder ==
    FetchingRun =>
        /\ IsPrefix(log, ExpectedLog)
        /\ pc = "postprocess" => layers = Zip(Keys(fetched[1]), Composed(fetched[1], args))
        /\ pc \in {"bounds", "done"} =>
            /\ log = ExpectedLog
            /\ layers = Postprocessed(Zip(Keys(fetched[1]), Composed(fetched[1], args)), args)

C8_Witness ==
    /\ FetchingRun
    /\ pc = "done"
    /\ Len(args.layers) = 3
    /\ args.x # None /\ args.y # None
    /\ args.scale_x # None /\ args.scale_y # None
    /\ args.rotation # None
    /\ args.postprocessing = Some("mirror")
    /\ \A i \in DOMAIN fetched[1] : fetched[1][i][2] # EmptyShape

AnchorKeys == {"perimeter", "point", "radius"}

AnchorPart(kw) == [k \in DOMAIN kw \cap AnchorKeys |-> kw[k]]

AnchorForm(kw) ==
    IF DOMAIN kw \cap AnchorKeys = {"perimeter"} THEN "perimeter"
    ELSE IF DOMAIN kw \cap AnchorKeys = {"point", "radius"} THEN "point+radius"
    ELSE "invalid"

\* C9: every layer fetch of a run receives exactly one anchor form, a
\* perimeter or a point with a radius, never both and never neither, and all
\* fetches of the run receive the same anchor.
C9_ExactlyOneAnchorForm ==
    \A i \in DOMAIN calls :
        /\ AnchorForm(calls[i].kw) # "invalid"
        /\ AnchorPart(calls[i].kw) = AnchorPart(calls[1].kw)
        /\ AnchorPart(calls[i].kw) = base_kwargs

C9_Witness ==
    /\ Len(calls) = 3
    /\ AnchorForm(calls[3].kw) = "perimeter"
    /\ args.radius = Some(0)
    /\ query.type = "str"

Signature(g) == [j \in DOMAIN g |-> Cardinality(g[j])]

C6_OsmidOnlyForWholeMatch ==
    query_mode # None =>
        /\ query_mode[1] \in {"polygon", "coordinates", "osmid", "address"}
        /\ query.type = "str" =>
            /\ query_mode[1] \in {"osmid", "address"}
            /\ query_mode[1] = "osmid" <=> FullMatch(query.val)

FetchReturned == f_pc = "done" /\ f_out.raised = ""

UsableAnchor(kw) ==
    \/ "perimeter" \in DOMAIN kw /\ IsGdf(kw.perimeter)
    \/ "perimeter" \notin DOMAIN kw /\ {"point", "radius"} \subseteq DOMAIN kw

\* The anchor's own perimeter: the perimeter polygon, or the disk or square
\* of radius `radius` around the projected point, before any dilation.
AnchorPerimeter(kw) ==
    IF "perimeter" \in DOMAIN kw THEN unary_union(kw.perimeter.rows)
    ELSE IF Arg(kw, "circle", TRUE) THEN Ball(ProjectPoint(kw.point), kw.radius)
    ELSE Square(ProjectPoint(kw.point), kw.radius)

\* The largest width a street layer's width option holds.
WidestWidth(kw) ==
    LET width == Arg(kw, "width", ScalarWidth(DefaultWidth))
    IN  IF width.kind = "dict" THEN Max({width.by[h] : h \in DOMAIN width.by})
        ELSE width.n

\* C3 (as claimed): whatever the anchor form, the layer kind and the width,
\* the geometry a layer fetch returns lies inside the anchor perimeter
\* buffered by the layer's own dilate.
C3_LayerInsideDilatedPerimeter ==
    (FetchReturned /\ f_layer # "perimeter") =>
        Cover(f_out.geom) \subseteq Buffer(AnchorPerimeter(f_kwargs), Arg(f_kwargs, "dilate", 0))

\* C3 (amended): an area layer (get_geometries) lies inside the anchor
\* perimeter buffered by the layer's dilate, for both anchor forms; a network
\* layer (get_streets) is buffered by its width after the clipping, so with a
\* point and radius it lies inside the perimeter buffered by dilate plus the
\* largest width (with a perimeter anchor it is not clipped at all).
C3_AreaInsideDilatedPerimeter ==
    FetchReturned =>
        /\ f_layer \notin {"perimeter"} \cup NetworkLayers =>
            Cover(f_out.geom) \subseteq
                Buffer(AnchorPerimeter(f_kwargs), Arg(f_kwargs, "dilate", 0))
        /\ (f_layer \in NetworkLayers /\ "perimeter" \notin DOMAIN f_kwargs) =>
            Cover(f_out.geom) \subseteq
                Buffer(AnchorPerimeter(f_kwargs),
                       Arg(f_kwargs, "dilate", 0) + WidestWidth(f_kwargs))

C3_Witness ==
    /\ FetchReturned
    /\ f_layer = "building"
    /\ "radius" \in DOMAIN f_kwargs
    /\ Arg(f_kwargs, "dilate", 0) > 0
    /\ ~Arg(f_kwargs, "circle", TRUE)
    /\ f_out.geom # {}
    /\ \E f \in f_world.areas :
        /\ f.type = "Polygon"
        /\ ~(Cover(f.parts) \subseteq
                Buffer(AnchorPerimeter(f_kwargs), Arg(f_kwargs, "dilate", 0)))

\* C4: the boundary get_boundary returns is the disk (circle) or the square
\* (no circle) of radius `radius` around the projected point, buffered
\* outwards by dilate in both shapes.
C4_BoundaryDilatedInBothShapes ==
    (FetchReturned /\ f_out.boundary # None) =>
        f_out.boundary[1] =
            Buffer(AnchorPerimeter(f_kwargs), Arg(f_kwargs, "dilate", 0))

\* C5 (as claimed): a layer name outside the supported vocabulary makes
\* get_layer fail with an error before any retrieval is attempted.
C5_UnsupportedNameFailsFast ==
    (f_pc = "done" /\ f_layer \notin KnownLayers) =>
        /\ f_out.raised # ""
        /\ f_out.retrievals = {}

\* C5 (amended): get_layer checks no layer name: every name other than
\* perimeter, streets, railway and waterway, supported or not, is fetched as
\* an area layer; given a usable anchor the retrieval is performed and a
\* geometry returned, and no call ends in an error about the layer name.
C5_UnsupportedNameIsFetchedAsArea ==
    (f_pc = "done" /\ f_layer \notin KnownLayers) =>
        /\ f_out.raised \in {"", "AttributeError", "UnboundLocalError"}
        /\ UsableAnchor(f_kwargs) =>
            /\ f_out.raised = ""
            /\ f_out.retrievals \in {{"geometries_from_polygon"}, {"geometries_from_point"}}

C5_Witness ==
    /\ f_pc = "done"
    /\ f_layer \notin KnownLayers
    /\ f_out.raised = ""
    /\ f_out.retrievals = {"geometries_from_point"}
    /\ f_out.geom # {}

====
